---- MODULE Spec2Model ----
(***************************************************************************)
(* Model of the JSON projection hook of schaufel                           *)
(* (src/src/hooks/jsonexport.c): the type formatters, the filters and      *)
(* actions, the needle compiler, the per-message evaluator h_jsonexport    *)
(* with its row serializer and metadata emitter, and the configuration     *)
(* validator h_jsonexport_validate.                                        *)
(*                                                                         *)
(* Strings are sequences of byte values (ASCII codes).  Machine words are  *)
(* little-endian sequences of base-256 limbs, so that uint32_t and         *)
(* uint64_t arithmetic keeps its width (TLC's own integers are 32 bit).    *)
(***************************************************************************)
EXTENDS Integers, Sequences, FiniteSets, TLC

(***************************************************************************)
(* Bounds of the model.                                                    *)
(***************************************************************************)
\* longest NeedleSet that h_jsonexport_init compiles in the model
MaxNeedles == 2
\* longest jpointers list given to h_jsonexport_validate in the model
MaxRuns == 2

MaxEntries == 2

(***************************************************************************)
(* Fixed-width unsigned arithmetic on limb sequences.                      *)
(***************************************************************************)
RECURSIVE Limbs(_, _)
\* the w low base-256 limbs of the natural n, least significant first
Limbs(n, w) == IF w = 0 THEN <<>> ELSE <<n % 256>> \o Limbs(n \div 256, w - 1)

U32(n) == Limbs(n, 4)
U64(n) == Limbs(n, 8)

RECURSIVE AddL(_, _, _)
\* a + b + c modulo 256^Len(a)
AddL(a, b, c) ==
    IF a = <<>> THEN <<>>
    ELSE LET s == Head(a) + Head(b) + c
         IN  <<s % 256>> \o AddL(Tail(a), Tail(b), s \div 256)

RECURSIVE MulLimb(_, _, _)
\* a * k + c modulo 256^Len(a), for one limb k
MulLimb(a, k, c) ==
    IF a = <<>> THEN <<>>
    ELSE LET s == Head(a) * k + c
         IN  <<s % 256>> \o MulLimb(Tail(a), k, s \div 256)

RECURSIVE MulL(_, _)
\* a * b modulo 256^Len(a)
MulL(a, b) ==
    IF b = <<>> THEN [k \in 1..Len(a) |-> 0]
    ELSE LET rest == MulL(a, Tail(b))
             shifted == IF Len(a) = 0 THEN <<>>
                        ELSE <<0>> \o SubSeq(rest, 1, Len(a) - 1)
         IN  AddL(MulLimb(a, Head(b), 0), shifted, 0)

Add(a, b) == AddL(a, b, 0)
\* a - 1 modulo 256^Len(a): adding the all-ones word
Dec(a) == AddL(a, [k \in 1..Len(a) |-> 255], 0)
\* zero extension of a word to w limbs (uint32_t assigned to uint64_t)
Widen(a, w) == a \o [k \in 1..(w - Len(a)) |-> 0]

Reverse(s) == [k \in 1..Len(s) |-> s[Len(s) + 1 - k]]

(***************************************************************************)
(* Byte order (utils/endian.h, arpa/inet.h): the memory image of the       *)
(* converted word, first byte first.                                       *)
(***************************************************************************)
htons(n) == Reverse(Limbs(n % 65536, 2))
htobe32(w) == Reverse(w)
htobe64(w) == Reverse(w)

\* the complement forgotten: a zero length where the NULL marker belongs
UINT32_ZERO == <<0, 0, 0, 0>>

\* (uint32_t)~0
UINT32_MAX == <<255, 255, 255, 255>>

(***************************************************************************)
(* C strings.  s is the string without its terminator; At(s, k) is s[k] in *)
(* C, the terminator included.                                             *)
(***************************************************************************)
At(s, k) == IF k < Len(s) THEN s[k + 1] ELSE 0

IsDigit(c) == c >= 48 /\ c <= 57

RECURSIVE DigitRun(_, _, _)
\* value of the longest run of decimal digits of s from offset k on, after acc
DigitRun(s, k, acc) ==
    IF IsDigit(At(s, k)) THEN DigitRun(s, k + 1, acc * 10 + (At(s, k) - 48))
    ELSE acc

\* strtoul(s + k, NULL, 10) and strtoull on a string that starts, at k, with
\* digits or with a character that is neither blank nor sign
strtoul(s, k) == DigitRun(s, k, 0)

RECURSIVE IsInfix(_, _)
\* strstr(hay, needle) != NULL
IsInfix(needle, hay) ==
    IF Len(needle) > Len(hay) THEN FALSE
    ELSE IF SubSeq(hay, 1, Len(needle)) = needle THEN TRUE
    ELSE IsInfix(needle, Tail(hay))

(***************************************************************************)
(* JSON values as json-c hands them out.  A JSON null is the NULL object   *)
(* pointer.                                                                *)
(***************************************************************************)
JNull == [type |-> "null", s |-> <<>>]
JString(s) == [type |-> "string", s |-> s]

\* a char pointer: NULL, or the bytes it points at and who owns them
NULL == [tag |-> "null", bytes |-> <<>>]
Borrowed(s) == [tag |-> "json", bytes |-> s]
Malloced(s) == [tag |-> "malloc", bytes |-> s]

\* json_object_get_string: NULL for the NULL object
json_object_get_string(found) ==
    IF found = JNull THEN NULL ELSE Borrowed(found.s)

(***************************************************************************)
(* The registries.                                                         *)
(***************************************************************************)
pq_types ==
    << [type |-> "pqtype_undef", pq_type |-> "undef", format |-> "NULL", free |-> "NULL"],
       [type |-> "pqtype_text", pq_type |-> "text", format |-> "_json_to_pqtext",
        free |-> "_obj_noop"],
       [type |-> "pqtype_timestamp", pq_type |-> "timestamp",
        format |-> "_json_to_pqtimestamp", free |-> "_obj_free"] >>

action_types ==
    << [type |-> "action_undef", action_type |-> "undef", action |-> "NULL", store |-> FALSE],
       [type |-> "action_store", action_type |-> "store", action |-> "_action_store",
        store |-> TRUE],
       [type |-> "action_store_true", action_type |-> "store_true",
        action |-> "_action_store_true", store |-> TRUE],
       [type |-> "action_discard_false", action_type |-> "discard_false",
        action |-> "_action_discard_false", store |-> FALSE],
       [type |-> "action_discard_true", action_type |-> "discard_true",
        action |-> "_action_discard_true", store |-> FALSE],
       [type |-> "action_store_meta", action_type |-> "store_meta",
        action |-> "_action_store_meta", store |-> TRUE] >>

filter_types ==
    << [type |-> "filter_undef", filter_type |-> "undef", filter |-> "NULL",
        needs_data |-> FALSE],
       [type |-> "filter_noop", filter_type |-> "noop", filter |-> "_filter_noop",
        needs_data |-> FALSE],
       [type |-> "filter_match", filter_type |-> "match", filter |-> "_filter_match",
        needs_data |-> TRUE],
       [type |-> "filter_substr", filter_type |-> "substr", filter |-> "_filter_substr",
        needs_data |-> TRUE],
       [type |-> "filter_exists", filter_type |-> "exists", filter |-> "_filter_exists",
        needs_data |-> FALSE] >>

\* the enum lookups return the index into the table, 1 (undef) when no name
\* from the second entry on matches
_actiontype_enum(name) ==
    IF \E j \in 2..Len(action_types) : action_types[j].action_type = name
    THEN CHOOSE j \in 2..Len(action_types) : action_types[j].action_type = name
    ELSE 1

_filtertype_enum(name) ==
    IF \E j \in 2..Len(filter_types) : filter_types[j].filter_type = name
    THEN CHOOSE j \in 2..Len(filter_types) : filter_types[j].filter_type = name
    ELSE 1

_pqtype_enum(name) ==
    IF \E j \in 2..Len(pq_types) : pq_types[j].pq_type = name
    THEN CHOOSE j \in 2..Len(pq_types) : pq_types[j].pq_type = name
    ELSE 1

(***************************************************************************)
(* Leap years.                                                             *)
(***************************************************************************)
\* the test of the loop body, on years counted from 2000
IsLeap(i) == (i % 4 = 0 /\ i % 100 # 0) \/ (i % 400 = 0)

\* the table: entry 0 stays 0 (calloc), entry i+1 is the number of leap years
\* among 0..i, for i below 2047; indexed from 0
_leapyear == [j \in 0..2047 |-> Cardinality({i \in 0..(j - 1) : IsLeap(i)})]

(***************************************************************************)
(* A needle: the compiled fields and the per-message slot (length, result, *)
(* metadata).  Function pointers are the names of the functions.           *)
(***************************************************************************)
\* the filters
_filter_match(jpointer, found, current) ==
    IF jpointer = FALSE \/ found = JNull THEN FALSE
    ELSE json_object_get_string(found).bytes = current.filter_data

_filter_substr(jpointer, found, current) ==
    IF jpointer = FALSE \/ found = JNull THEN FALSE
    ELSE IsInfix(current.filter_data, json_object_get_string(found).bytes)

_filter_noop(jpointer, found, current) == TRUE

_filter_exists(jpointer, found, current) == jpointer

\* the actions: the value returned (keep this message) and the needle after
_action_store(filter_ret, found, current) == [ret |-> TRUE, cur |-> current]

_action_store_true(filter_ret, found, current) == [ret |-> filter_ret, cur |-> current]

_action_discard_false(filter_ret, found, current) == [ret |-> filter_ret, cur |-> current]

\* discard_true without the negation
_action_discard_true_plain(filter_ret, found, current) ==
    [ret |-> filter_ret, cur |-> current]

_action_discard_true(filter_ret, found, current) == [ret |-> ~filter_ret, cur |-> current]

_action_store_meta(filter_ret, found, current) ==
    [ret |-> TRUE,
     cur |-> IF found # JNull THEN [current EXCEPT !.metadata = TRUE] ELSE current]

(***************************************************************************)
(* The type formatters.  Each returns the value returned, the needle       *)
(* after, the number of diagnostics logged, and whether the call read      *)
(* through a null pointer (strlen(NULL)): the process then takes a         *)
(* segmentation fault and nothing of the call's effects is observable.     *)
(***************************************************************************)
Formatted(r, c, l) == [ret |-> r, cur |-> c, logs |-> l, fault |-> FALSE]
Faulted(c) == [ret |-> FALSE, cur |-> c, logs |-> 0, fault |-> TRUE]

_json_to_pqtext(found, current) ==
    LET p == json_object_get_string(found)
    IN  IF p = NULL THEN Faulted([current EXCEPT !.result = NULL])
        ELSE Formatted(TRUE,
                       [current EXCEPT !.result = p, !.length = U32(Len(p.bytes))],
                       0)

T_MONTH == 5
T_DAY == 8
T_HOUR == 11
T_MINUTE == 14
T_SECOND == 17
T_FRACTION == 20
T_MIN == 20
T_MAX == 31
PG_FRACTION == 6

\* the table a leapyears pointer points at: every needle aliases the one
\* table that _needles allocates
Table(ptr) == IF ptr = "internal->leapyears" THEN _leapyear ELSE [j \in {} |-> 0]

RECURSIVE YdayLoop(_, _, _, _)
\* the day-of-year loop: months i .. month-1 added to yday, year counted from 2000
YdayLoop(i, month, year, yday) ==
    IF ~(i < month) THEN yday
    ELSE YdayLoop(i + 1, month, year,
                  IF i = 2
                  THEN (IF (year % 4 = 0 /\ year % 100 # 0) \/ (year % 400 = 0)
                        THEN yday + 29 ELSE yday + 28)
                  ELSE IF i < 8 THEN yday + 30 + (i % 2)
                  ELSE yday + 30 + ((i + 1) % 2))

\* the epoch expression, every operand uint32_t: the sum wraps at 2^32 before
\* it is assigned to the uint64_t epoch
EpochSeconds32(tm, leapyears) ==
    Add(Add(Add(Add(Add(U32(tm.second),
                        MulL(U32(tm.minute), U32(60))),
                    MulL(U32(tm.hour), U32(3600))),
                MulL(Dec(U32(tm.yday)), U32(86400))),
            MulL(U32(Table(leapyears)[tm.year]), U32(86400))),
        MulL(U32(tm.year), U32(31536000)))

_json_to_pqtimestamp(found, current) ==
    LET p == json_object_get_string(found)
    IN
    IF p = NULL THEN Faulted(current)
    ELSE
    LET ts == p.bytes
        len == Len(ts)
        \* current->result = malloc(sizeof(uint64_t)), not yet written
        cur1 == [current EXCEPT !.result = Malloced(<<>>)]
    IN
    IF len < T_MIN \/ len > T_MAX THEN Formatted(FALSE, cur1, 1)
    ELSE IF \/ At(ts, T_MONTH - 1) # 45 \/ At(ts, T_DAY - 1) # 45
            \/ At(ts, T_HOUR - 1) # 84
            \/ At(ts, T_MINUTE - 1) # 58 \/ At(ts, T_SECOND - 1) # 58
            \/ ~(At(ts, T_FRACTION - 1) = 46 \/ At(ts, T_FRACTION - 1) = 90)
            \/ At(ts, len - 1) # 90
         THEN Formatted(FALSE, cur1, 1)
    ELSE
    LET bytes == IF (len - 1) - T_MIN > PG_FRACTION THEN PG_FRACTION
                 ELSE (len - 1) - T_MIN
        micro == [k \in 1..PG_FRACTION |->
                    IF k <= bytes THEN At(ts, T_MIN + k - 1) ELSE 48]
        tm0 == [year |-> strtoul(ts, 0),
                month |-> strtoul(ts, T_MONTH),
                day |-> strtoul(ts, T_DAY),
                yday |-> 0,
                hour |-> strtoul(ts, T_HOUR),
                minute |-> strtoul(ts, T_MINUTE),
                second |-> strtoul(ts, T_SECOND),
                micro |-> IF At(ts, T_FRACTION) # 90 /\ At(ts, T_FRACTION - 1) # 90
                          THEN strtoul(micro, 0) ELSE 0]
    IN
    IF tm0.year < 2000 \/ tm0.year > 4027 THEN Formatted(FALSE, cur1, 1)
    ELSE IF \/ tm0.month < 1 \/ tm0.month > 12 \/ tm0.day > 31
            \/ tm0.hour > 23 \/ tm0.minute > 59 \/ tm0.second > 60
         THEN Formatted(FALSE, cur1, 1)
    ELSE IF tm0.month = 2 /\ tm0.day > 29 THEN Formatted(FALSE, cur1, 1)
    ELSE
    LET year == tm0.year - 2000
        tm == [tm0 EXCEPT !.year = year,
                          !.yday = YdayLoop(1, tm0.month, year, 0) + tm0.day]
        epoch == Add(MulL(Widen(EpochSeconds32(tm, current.leapyears), 8),
                          U64(1000000)),
                     U64(tm.micro))
    IN  Formatted(TRUE,
                  [current EXCEPT !.result = Malloced(htobe64(epoch)),
                                  !.length = U32(8)],
                  0)

\* the disposers: the result pointer after the call, and whether it freed
_obj_noop(result) == result
_obj_free(result) == NULL

\* calls through the function pointers of a needle
CallFilter(f, jpointer, found, current) ==
    CASE f = "_filter_noop" -> _filter_noop(jpointer, found, current)
      [] f = "_filter_match" -> _filter_match(jpointer, found, current)
      [] f = "_filter_substr" -> _filter_substr(jpointer, found, current)
      [] f = "_filter_exists" -> _filter_exists(jpointer, found, current)

CallAction(f, filter_ret, found, current) ==
    CASE f = "_action_store" -> _action_store(filter_ret, found, current)
      [] f = "_action_store_true" -> _action_store_true(filter_ret, found, current)
      [] f = "_action_discard_false" -> _action_discard_false(filter_ret, found, current)
      [] f = "_action_discard_true" -> _action_discard_true(filter_ret, found, current)
      [] f = "_action_store_meta" -> _action_store_meta(filter_ret, found, current)

CallFormat(f, found, current) ==
    CASE f = "_json_to_pqtext" -> _json_to_pqtext(found, current)
      [] f = "_json_to_pqtimestamp" -> _json_to_pqtimestamp(found, current)

CallFree(f, result) ==
    CASE f = "_obj_noop" -> _obj_noop(result)
      [] f = "_obj_free" -> _obj_free(result)

(***************************************************************************)
(* Needle compiler.  A setting is a normalized 5-tuple of strings          *)
(* <<jpointer, pqtype, action, filter, data>>.                             *)
(***************************************************************************)
\* one iteration of the loop of _needles: the needle compiled from a setting
CompileNeedle(setting) ==
    LET pqtype == _pqtype_enum(setting[2])
        actiontype == _actiontype_enum(setting[3])
        filtertype == _filtertype_enum(setting[4])
    IN  [jpointer |-> setting[1],
         format |-> pq_types[pqtype].format,
         free |-> pq_types[pqtype].free,
         leapyears |-> "internal->leapyears",
         length |-> U32(0),
         result |-> NULL,
         action |-> action_types[actiontype].action,
         filter |-> filter_types[filtertype].filter,
         store |-> action_types[actiontype].store,
         filter_data |-> IF filter_types[filtertype].needs_data THEN setting[5]
                         ELSE <<>>,
         metadata |-> FALSE]

(***************************************************************************)
(* Inputs of the model: JSON string values.                                *)
(***************************************************************************)
\* n as w decimal digits (ASCII)
RECURSIVE Digits(_, _)
Digits(n, w) == IF w = 0 THEN <<>> ELSE Digits(n \div 10, w - 1) \o <<48 + (n % 10)>>

\* "YYYY-MM-DDTHH:MM:SS[.frac]Z" for the components c and the fraction
\* characters frac
RenderTs(c, frac) ==
    Digits(c.year, 4) \o <<45>> \o Digits(c.month, 2) \o <<45>> \o Digits(c.day, 2)
    \o <<84>> \o Digits(c.hour, 2) \o <<58>> \o Digits(c.minute, 2) \o <<58>>
    \o Digits(c.second, 2)
    \o (IF frac = <<>> THEN <<90>> ELSE <<46>> \o frac \o <<90>>)

TsYears == {1999, 2000, 2001, 2004, 2100, 2135, 2136, 2137, 4027, 4028}
TsMonths == {0, 1, 2, 3, 8, 12, 13}
TsDays == {0, 1, 7, 28, 29, 30, 31, 32}
\* <<hour, minute, second>>
TsClocks == {<<0, 0, 0>>, <<23, 59, 60>>, <<24, 0, 0>>, <<0, 60, 0>>, <<0, 0, 61>>,
             <<6, 28, 15>>, <<6, 28, 16>>}
\* "", "000001", "123456789", "5"
TsFractions == {<<>>, <<48, 48, 48, 48, 48, 49>>,
                <<49, 50, 51, 52, 53, 54, 55, 56, 57>>, <<53>>}

TsComponents ==
    {[year |-> y, month |-> m, day |-> d, hour |-> k[1], minute |-> k[2],
      second |-> k[3], frac |-> f] :
        y \in TsYears, m \in TsMonths, d \in TsDays, k \in TsClocks, f \in TsFractions}

\* "yes", "no", "e"
StrYes == <<121, 101, 115>>
StrNo == <<110, 111>>
StrE == <<101>>

\* a needle slot as _needles leaves it, for a call of a formatter on its own
BlankNeedle == CompileNeedle(<<"/t", "timestamp", "store", "noop", <<>>>>)

(***************************************************************************)
(* _needles and h_jsonexport_init: the compiled state.  Needle structs     *)
(* live in memory at an address: address 0 holds the needles of the        *)
(* context, address p the working copy of the invocation on worker p.      *)
(***************************************************************************)
_needles(needlestack) ==
    [needles |-> [i \in 1..Len(needlestack) |-> CompileNeedle(needlestack[i])],
     fields |-> Cardinality({i \in 1..Len(needlestack) :
                    action_types[_actiontype_enum(needlestack[i][3])].store}) % 65536]

h_jsonexport_init(needlestack) ==
    [needles |-> 0,
     leapyears |-> "internal->leapyears",
     ncount |-> Len(needlestack) % 65536,
     fields |-> _needles(needlestack).fields]

\* a copy that keeps the needles pointer of the context: the structs shared
_copy_internal_shared(global, fresh) == global

\* _copy_internal: the copy's struct, its needles array freshly allocated at
\* address fresh (the needle structs are copied into it by the caller's step)
_copy_internal(global, fresh) == [global EXCEPT !.needles = fresh]

(***************************************************************************)
(* JSON documents: the value under each pointer, or Absent.                *)
(***************************************************************************)
Absent == [type |-> "absent", s |-> <<>>]
Pointers == {"/a", "/b"}

\* json_pointer_get: 0 and the located object, or negative and found left NULL
json_pointer_get(haystack, jpointer) ==
    IF haystack[jpointer] = Absent THEN [ret |-> -1, found |-> JNull]
    ELSE [ret |-> 0, found |-> haystack[jpointer]]

\* json_tokener_parse: the tree, or NULL (NoTree) when the text is not JSON
NoTree == [q \in Pointers |-> Absent]
json_tokener_parse(data) == IF data.kind = "json" THEN data.doc ELSE NoTree
Tokenized(data) == data.kind = "json"

(***************************************************************************)
(* One iteration of the loop of _deref on needle cur.                      *)
(***************************************************************************)
DerefIter(haystack, cur) ==
    LET g == json_pointer_get(haystack, cur.jpointer)
        f == CallFilter(cur.filter, g.ret = 0, g.found, cur)
        a == CallAction(cur.action, f, g.found, cur)
    IN  IF ~a.ret THEN [status |-> "return 1", cur |-> a.cur, logs |-> 0]
        ELSE IF g.ret # 0
        THEN [status |-> "continue",
              cur |-> [a.cur EXCEPT !.result = NULL, !.length = UINT32_MAX],
              logs |-> 0]
        ELSE LET r == CallFormat(a.cur.format, g.found, a.cur)
             IN  IF r.fault THEN [status |-> "fault", cur |-> r.cur, logs |-> r.logs]
                 ELSE IF ~r.ret
                 THEN [status |-> "return -1", cur |-> r.cur, logs |-> r.logs + 1]
                 ELSE [status |-> "continue", cur |-> r.cur, logs |-> r.logs]

(***************************************************************************)
(* Row serializer: what one iteration of the row loop appends.             *)
(***************************************************************************)
RECURSIVE NatOf(_)
\* the value of a word that is known to be small
NatOf(w) == IF w = <<>> THEN 0 ELSE Head(w) + 256 * NatOf(Tail(w))

\* memcpy(dst, src, n) from a non-null pointer
memcpy(src, n) == SubSeq(src.bytes, 1, n)

\* the row loop without its test of store: every needle written
RowStores_all(cur) == TRUE

\* whether the row loop writes needle cur at all
RowStores(cur) == cur.store

RowRecord(cur) ==
    htobe32(cur.length)
    \o (IF cur.result # NULL THEN memcpy(cur.result, NatOf(cur.length)) ELSE <<>>)

\* the slot buffers that needles[k]->free(&needles[k]->result) releases, over
\* all needles: the results that are allocations and that the disposer frees
FreedSlots(needles) ==
    {<<"slot", k>> : k \in {j \in 1..Len(needles) :
                                /\ needles[j].result.tag = "malloc"
                                /\ CallFree(needles[j].free, needles[j].result) = NULL}}

\* the needles after needles[k]->free(&needles[k]->result) on each of them
Disposed(needles) ==
    [k \in 1..Len(needles) |->
        [needles[k] EXCEPT !.result = CallFree(needles[k].free, @)]]

\* _free_internal: what is at the address of the needles afterwards (every
\* struct and the array are freed)
_free_internal(needles) == <<>>

\* metadata_insert: the map after the insertion
NoDatum == [type |-> "none", value |-> <<>>]
mdatum_init(type, value) == [type |-> type, value |-> value]
metadata_insert(md, key, datum) == [md EXCEPT ![key] = datum]
NoMetadata == [k \in {"jpointer"} |-> NoDatum]

(***************************************************************************)
(* Inputs of the model: configurations and messages.                       *)
(***************************************************************************)
\* "2000-01-01T00:00:00.000001Z" and "1999-12-31T23:59:59Z"
TsGood == RenderTs([year |-> 2000, month |-> 1, day |-> 1, hour |-> 0, minute |-> 0,
                    second |-> 0], <<48, 48, 48, 48, 48, 49>>)
TsBad == RenderTs([year |-> 1999, month |-> 12, day |-> 31, hour |-> 23, minute |-> 59,
                   second |-> 59], <<>>)

\* normalized 5-tuples <<jpointer, pqtype, action, filter, data>>
NeedleConfs ==
    { <<"/a", "text", "store", "noop", <<>>>>,
      <<"/b", "text", "store_true", "exists", <<>>>>,
      <<"/a", "text", "discard_false", "match", StrYes>>,
      <<"/a", "text", "discard_true", "substr", StrE>>,
      <<"/b", "timestamp", "store", "noop", <<>>>>,
      <<"/a", "text", "store_meta", "noop", <<>>>>,
      <<"/b", "timestamp", "store_meta", "noop", <<>>>>,
      <<"/b", "timestamp", "discard_false", "exists", <<>>>> }

\* the smaller universe used when two invocations interleave
ConcNeedleConfs ==
    { <<"/a", "text", "store_meta", "noop", <<>>>>,
      <<"/a", "text", "discard_true", "substr", StrE>>,
      <<"/b", "timestamp", "store", "noop", <<>>>>,
      <<"/b", "timestamp", "store_meta", "noop", <<>>>> }

NeedleStacksOver(confs) == UNION {[1..n -> confs] : n \in 0..MaxNeedles}

ValuesA == {Absent, JNull, JString(StrYes), JString(StrNo)}
ValuesB == {Absent, JNull, JString(TsGood), JString(TsBad)}

Doc(a, b) == [q \in Pointers |-> IF q = "/a" THEN a ELSE b]

\* a message whose payload is the JSON text of doc; term: data[len] is '\0'
JsonMessage(doc, term) ==
    [data |-> [kind |-> "json", doc |-> doc, bytes |-> <<>>, term |-> term],
     len |-> 16 + Len(doc["/a"].s) + Len(doc["/b"].s),
     md |-> NoMetadata]
\* a message whose payload is no JSON text
JunkMessage == [data |-> [kind |-> "junk", doc |-> NoTree, bytes |-> <<>>, term |-> TRUE],
                len |-> 4, md |-> NoMetadata]
NoMessage == [data |-> [kind |-> "none", doc |-> NoTree, bytes |-> <<>>, term |-> FALSE],
              len |-> 0, md |-> NoMetadata]

Messages ==
    {JsonMessage(Doc(a, b), TRUE) : a \in ValuesA, b \in ValuesB}
    \cup {JsonMessage(Doc(JString(StrYes), JString(TsGood)), FALSE), JunkMessage}

ConcMessages ==
    { JsonMessage(Doc(JString(StrYes), JString(TsGood)), TRUE),
      JsonMessage(Doc(JString(StrNo), Absent), TRUE),
      JsonMessage(Doc(JString(StrNo), JString(TsBad)), TRUE),
      JsonMessage(Doc(JString(StrNo), JString(TsGood)), FALSE),
      JunkMessage }

(***************************************************************************)
(* State.                                                                  *)
(***************************************************************************)
AllWorkers == {1, 2}
Addrs == {0} \cup AllWorkers

VARIABLES
    workers,    \* the worker threads that call h_jsonexport
    ctx,        \* ctx->data: the Internal struct compiled by h_jsonexport_init
    mem,        \* the needle structs at each address (0: the context's)
    pc,         \* per worker: where its invocation of h_jsonexport stands
    loc,        \* per worker: the locals of the invocation
    msg,        \* per worker: the Message being handled
    msgIn,      \* per worker: the Message as it was on entry
    rv,         \* per worker: the value h_jsonexport returned
    heap,       \* per worker: what the invocation has allocated and not released
    logs,       \* per worker: diagnostics logged by the invocation
    aborted,    \* the process took a fault
    fmtIn,      \* formatter runs: the components the input string was rendered from
    fmtFound,   \* formatter runs: the located JSON value
    fmtOut,     \* formatter runs: what the formatter returned, or NotCalled
    config,     \* validate: the hook's configuration group
    configIn,   \* validate: the configuration as the first call received it
    vpc,        \* validate: where the call of h_jsonexport_validate stands
    vi,         \* validate: the loop counter i
    vrv,        \* validate: the value h_jsonexport_validate returned
    vruns,      \* validate: calls of h_jsonexport_validate so far
    vlogs,      \* validate: diagnostics written by the current call
    vhist       \* validate: the configuration as each call that returned true left it

hVars == <<workers, ctx, mem, pc, loc, msg, msgIn, rv, heap, logs, aborted>>
fmtVars == <<fmtIn, fmtFound, fmtOut>>
valVars == <<config, configIn, vpc, vi, vrv, vruns, vlogs, vhist>>
notHandleVars == <<fmtVars, valVars>>
notFmtVars == <<hVars, valVars>>
notValVars == <<hVars, fmtVars>>
vars == <<workers, ctx, mem, pc, loc, msg, msgIn, rv, heap, logs, aborted,
          fmtIn, fmtFound, fmtOut,
          config, configIn, vpc, vi, vrv, vruns, vlogs, vhist>>

NotCalled == [ret |-> FALSE, cur |-> BlankNeedle, logs |-> 0, fault |-> FALSE,
              by |-> "none"]
NoComponents == [year |-> 0, month |-> 0, day |-> 0, hour |-> 0, minute |-> 0,
                 second |-> 0, frac |-> <<>>]

NoInternal == [needles |-> 0, leapyears |-> "NULL", ncount |-> 0, fields |-> 0]
NoLoc == [internal |-> NoInternal, haystack |-> NoTree, deref |-> 0, ret |-> 0,
          i |-> 0, buf |-> <<>>, bufpos |-> 0, buflen |-> 0, fields |-> <<>>]

FmtIdle == fmtIn = NoComponents /\ fmtFound = JNull /\ fmtOut = NotCalled

\* the hook right after h_jsonexport_init on needlestack, no message in flight
Compiled(needlestack) ==
    /\ ctx = h_jsonexport_init(needlestack)
    /\ mem = [a \in Addrs |-> IF a = 0 THEN _needles(needlestack).needles ELSE <<>>]
    /\ pc = [p \in AllWorkers |-> "idle"]
    /\ loc = [p \in AllWorkers |-> NoLoc]
    /\ msg = [p \in AllWorkers |-> NoMessage]
    /\ msgIn = [p \in AllWorkers |-> NoMessage]
    /\ rv = [p \in AllWorkers |-> FALSE]
    /\ heap = [p \in AllWorkers |-> {}]
    /\ logs = [p \in AllWorkers |-> 0]
    /\ aborted = FALSE

(***************************************************************************)
(* Configuration settings as libconfig holds them.  A setting has a name   *)
(* (empty inside arrays and lists), a type, a string value and elements.   *)
(***************************************************************************)
\* a const char * into the configuration: NULL, or the string it points at
NoStr == <<>>
Str(s) == <<s>>

\* the NULL config_setting_t *
NoSetting == [name |-> "", type |-> "none", sval |-> NoStr, elems |-> <<>>]

StringSetting(name, sval) == [name |-> name, type |-> "string", sval |-> sval, elems |-> <<>>]
IntSetting(name) == [name |-> name, type |-> "int", sval |-> NoStr, elems |-> <<>>]
Aggregate(name, type, elems) == [name |-> name, type |-> type, sval |-> NoStr, elems |-> elems]

config_setting_length(setting) == Len(setting.elems)

config_setting_get_elem(setting, idx) ==
    IF idx + 1 \in 1..Len(setting.elems) THEN setting.elems[idx + 1] ELSE NoSetting

config_setting_get_member(setting, name) ==
    IF \E k \in 1..Len(setting.elems) : setting.elems[k].name = name
    THEN setting.elems[CHOOSE k \in 1..Len(setting.elems) : setting.elems[k].name = name]
    ELSE NoSetting

config_setting_get_string(setting) ==
    IF setting.type = "string" THEN setting.sval ELSE NoStr

config_setting_is_scalar(setting) == setting.type \in {"int", "string"}
config_setting_is_array(setting) == setting.type = "array"
config_setting_is_group(setting) == setting.type = "group"
config_setting_is_list(setting) == setting.type = "list"

\* config_setting_lookup_string: CONFIG_TRUE only for a member that is a string
config_setting_lookup_string(setting, name) ==
    LET member == config_setting_get_member(setting, name)
    IN  IF member = NoSetting \/ member.type # "string"
        THEN [ok |-> FALSE, value |-> NoStr]
        ELSE [ok |-> TRUE, value |-> member.sval]

\* config_setting_add(setting, NULL, type): the child appended
config_setting_add(setting, child) == [setting EXCEPT !.elems = Append(@, child)]

\* config_setting_remove_elem(setting, 0)
config_setting_remove_elem(setting) == [setting EXCEPT !.elems = Tail(@)]

\* the macros of utils/config.h: the member, NoSetting when it is missing
CONF_GET_MEM(cfg, name) == config_setting_get_member(cfg, name)
CONF_IS_LIST(setting) == config_setting_is_list(setting)
CONF_L_IS_STRING(setting, name) == config_setting_lookup_string(setting, name)

\* new: an array of five strings, none of them set yet
NewArray == Aggregate("", "array", [j \in 1..5 |-> StringSetting("", NoStr)])

\* config_setting_set_string_elem(new, 0..4, ...)
SetArray(tuple) == Aggregate("", "array", [j \in 1..5 |-> StringSetting("", tuple[j])])

(***************************************************************************)
(* The body of the loop of h_jsonexport_validate on one child: whether it  *)
(* jumps to error, and the five values it reaches the foot of the loop     *)
(* with.                                                                   *)
(***************************************************************************)
Defaults == <<NoStr, Str("text"), Str("store"), Str("noop"), Str("")>>

Rejected == [error |-> TRUE, fault |-> FALSE, logs |-> 1, new |-> Defaults]
NullName == [error |-> FALSE, fault |-> TRUE, logs |-> 0, new |-> Defaults]
Normal(jpointer, pqtype, action, filter, data, n) ==
    [error |-> FALSE, fault |-> FALSE, logs |-> n,
     new |-> <<jpointer, pqtype, action, filter, data>>]

\* config_setting_is_scalar(child)
ScalarEntry(child) ==
    LET conf == config_setting_get_string(child)
    IN  IF conf = NoStr THEN Rejected
        ELSE Normal(conf, Defaults[2], Defaults[3], Defaults[4], Defaults[5], 0)

\* config_setting_is_array(child)
ArrayEntry(child) ==
    LET m0 == config_setting_get_elem(child, 0)
        c0 == config_setting_get_string(m0)
        m1 == config_setting_get_elem(child, 1)
        c1 == config_setting_get_string(m1)
        pqtype == IF m1 # NoSetting THEN c1 ELSE Defaults[2]
        m2 == config_setting_get_elem(child, 2)
        c2 == config_setting_get_string(m2)
        action == IF m2 # NoSetting THEN c2 ELSE Defaults[3]
        m3 == config_setting_get_elem(child, 3)
        c3 == config_setting_get_string(m3)
        filter == IF m3 # NoSetting THEN c3 ELSE Defaults[4]
        m4 == config_setting_get_elem(child, 4)
        c4 == config_setting_get_string(m4)
    IN  IF m0 = NoSetting THEN Rejected
        ELSE IF c0 = NoStr THEN Rejected
        ELSE IF m1 # NoSetting /\ c1 # NoStr /\ _pqtype_enum(c1[1]) = 1 THEN Rejected
        ELSE IF m2 # NoSetting /\ c2 # NoStr /\ _actiontype_enum(c2[1]) = 1 THEN Rejected
        ELSE IF m3 # NoSetting /\ c3 # NoStr /\ _filtertype_enum(c3[1]) = 1 THEN Rejected
        \* strcmp on a NULL filter name
        ELSE IF filter = NoStr THEN NullName
        ELSE IF filter_types[_filtertype_enum(filter[1])].needs_data
             THEN IF m4 = NoSetting THEN Rejected
                  ELSE IF c4 = NoStr THEN Rejected
                  ELSE Normal(c0, pqtype, action, filter, c4, 0)
        ELSE Normal(c0, pqtype, action, filter, Defaults[5], 0)

\* config_setting_is_group(child)
GroupEntry(child) ==
    LET jp == CONF_L_IS_STRING(child, "jpointer")
        pq == config_setting_lookup_string(child, "pqtype")
        pqtype == IF pq.ok THEN pq.value ELSE Defaults[2]
        ac == config_setting_lookup_string(child, "action")
        action == IF ac.ok THEN ac.value ELSE Defaults[3]
        fi == config_setting_lookup_string(child, "filter")
        filter == IF fi.ok THEN fi.value ELSE Defaults[4]
        da == config_setting_lookup_string(child, "data")
    IN  IF ~jp.ok THEN Rejected
        \* strcmp on a NULL name
        ELSE IF pq.ok /\ pq.value = NoStr THEN NullName
        ELSE IF pq.ok /\ _pqtype_enum(pq.value[1]) = 1 THEN Rejected
        ELSE IF ac.ok /\ ac.value = NoStr THEN NullName
        ELSE IF ac.ok /\ _actiontype_enum(ac.value[1]) = 1 THEN Rejected
        ELSE IF fi.ok /\ fi.value = NoStr THEN NullName
        ELSE IF fi.ok /\ _filtertype_enum(fi.value[1]) = 1 THEN Rejected
        ELSE IF filter_types[_filtertype_enum(filter[1])].needs_data
             THEN IF da.ok THEN Normal(jp.value, pqtype, action, filter, da.value, 0)
                  ELSE Rejected
        ELSE Normal(jp.value, pqtype, action, filter, Defaults[5], 0)

\* the final else: a diagnostic, and on to the foot of the loop
OtherEntry(child) ==
    Normal(Defaults[1], Defaults[2], Defaults[3], Defaults[4], Defaults[5], 1)

NormalizeEntry(child) ==
    IF config_setting_is_scalar(child) THEN ScalarEntry(child)
    ELSE IF config_setting_is_array(child) THEN ArrayEntry(child)
    ELSE IF config_setting_is_group(child) THEN GroupEntry(child)
    ELSE OtherEntry(child)

(***************************************************************************)
(* Inputs of the model: entries of a jpointers list, and configurations.   *)
(***************************************************************************)
StringArray(names) == Aggregate("", "array", [j \in 1..Len(names) |-> StringSetting("", Str(names[j]))])

Group(members) == Aggregate("", "group", members)
Member(name, value) == StringSetting(name, Str(value))

Entries ==
    { StringSetting("", Str("/a")),
      IntSetting(""),
      StringArray(<<>>),
      StringArray(<<"/a">>),
      StringArray(<<"/b", "timestamp">>),
      StringArray(<<"/a", "bogus">>),
      StringArray(<<"/a", "undef">>),
      StringArray(<<"/a", "text", "store_meta">>),
      StringArray(<<"/a", "text", "bogus">>),
      StringArray(<<"/a", "text", "store_true", "exists">>),
      StringArray(<<"/a", "text", "store", "bogus">>),
      StringArray(<<"/a", "text", "discard_false", "match">>),
      StringArray(<<"/a", "text", "discard_false", "match", "yes">>),
      StringArray(<<"/a", "text", "store", "noop", "">>),
      StringArray(<<"/a", "text", "store", "noop", "yes">>),
      StringArray(<<"/a", "text", "store", "noop", "", "more">>),
      Aggregate("", "array", <<IntSetting("")>>),
      Group(<<>>),
      Group(<<Member("jpointer", "/a")>>),
      Group(<<IntSetting("jpointer")>>),
      Group(<<Member("pqtype", "timestamp"), Member("jpointer", "/b")>>),
      Group(<<Member("jpointer", "/a"), Member("pqtype", "bogus")>>),
      Group(<<Member("jpointer", "/a"), IntSetting("pqtype")>>),
      Group(<<Member("jpointer", "/a"), Member("action", "discard_true"),
              Member("filter", "substr"), Member("data", "e")>>),
      Group(<<Member("jpointer", "/a"), Member("action", "bogus")>>),
      Group(<<Member("jpointer", "/a"), Member("filter", "bogus")>>),
      Group(<<Member("jpointer", "/a"), Member("filter", "substr")>>),
      Group(<<Member("jpointer", "/a"), Member("filter", "match"), IntSetting("data")>>),
      Aggregate("", "list", <<>>),
      Aggregate("", "list", <<StringSetting("", Str("/a"))>>) }

JPointerLists == UNION {[1..n -> Entries] : n \in 0..MaxEntries}

\* the hook's configuration group around a jpointers member
ConfigOf(members) == Aggregate("", "group", members)

Configs ==
    {ConfigOf(<<Aggregate("jpointers", "list", l)>>) : l \in JPointerLists}
    \cup { ConfigOf(<<>>),
           ConfigOf(<<StringSetting("jpointers", Str("/a"))>>),
           ConfigOf(<<Aggregate("jpointers", "array", <<StringSetting("", Str("/a"))>>)>>),
           ConfigOf(<<Aggregate("jpointers", "group", <<Member("jpointer", "/a")>>)>>) }

\* h_jsonexport_validate not called yet on configuration c
ValidateIdle(c) ==
    /\ config = c
    /\ configIn = c
    /\ vpc = "idle"
    /\ vi = 0
    /\ vrv = FALSE
    /\ vruns = 0
    /\ vlogs = 0
    /\ vhist = <<>>

(***************************************************************************)
(* The formatters on their own: a located value is given to one formatter. *)
(***************************************************************************)
FmtInit ==
    /\ workers = {}
    /\ Compiled(<<>>)
    /\ ValidateIdle(ConfigOf(<<>>))
    /\ fmtOut = NotCalled
    /\ \/ \E c \in TsComponents :
            fmtIn = c /\ fmtFound = JString(RenderTs(c, c.frac))
       \/ fmtIn = NoComponents /\ fmtFound \in {JString(StrYes), JString(<<>>)}

CallPqText ==
    /\ fmtOut = NotCalled
    /\ fmtOut' = [by |-> "_json_to_pqtext"] @@ _json_to_pqtext(fmtFound, BlankNeedle)
    /\ UNCHANGED <<fmtIn, fmtFound>>
    /\ UNCHANGED notFmtVars

CallPqTimestamp ==
    /\ fmtOut = NotCalled
    /\ fmtOut' = [by |-> "_json_to_pqtimestamp"]
                    @@ _json_to_pqtimestamp(fmtFound, BlankNeedle)
    /\ UNCHANGED <<fmtIn, fmtFound>>
    /\ UNCHANGED notFmtVars

FmtNext == CallPqText \/ CallPqTimestamp

SpecFormat == FmtInit /\ [][FmtNext]_vars

(***************************************************************************)
(* h_jsonexport, step by step, on worker p.                                *)
(***************************************************************************)
MessagesFor(w) == IF Cardinality(w) > 1 THEN ConcMessages ELSE Messages

\* the needles the invocation works on
Needles(p) == mem[loc[p].internal.needles]

\* a read or write of needle i through a pointer into memory that holds no
\* such struct (the array was freed): a fault
Gone(p) == loc[p].i > Len(Needles(p))

Fault(p) ==
    /\ aborted' = TRUE
    /\ pc' = [pc EXCEPT ![p] = "fault"]
    /\ UNCHANGED <<workers, ctx, mem, loc, msg, msgIn, rv, heap, logs>>

\* the call with msg: _copy_internal, the reads of the message, htons
Enter(p, m) ==
    /\ UNCHANGED notHandleVars
    /\ ~aborted /\ p \in workers /\ pc[p] = "idle"
    /\ LET cpy == _copy_internal(ctx, p)
       IN  /\ mem' = [mem EXCEPT ![cpy.needles] = mem[ctx.needles]]
           /\ loc' = [loc EXCEPT ![p] = [NoLoc EXCEPT !.internal = cpy,
                                                      !.fields = htons(cpy.fields)]]
    /\ msg' = [msg EXCEPT ![p] = m]
    /\ msgIn' = [msgIn EXCEPT ![p] = m]
    /\ heap' = [heap EXCEPT ![p] = {<<"internal", 0>>}]
    /\ logs' = [logs EXCEPT ![p] = 0]
    /\ pc' = [pc EXCEPT ![p] = "check"]
    /\ UNCHANGED <<workers, ctx, rv, aborted>>

\* if (data[len] != '\0'): log and return false, nothing released
CheckTerminator(p) ==
    /\ UNCHANGED notHandleVars
    /\ ~aborted /\ pc[p] = "check"
    /\ IF ~msg[p].data.term
       THEN /\ logs' = [logs EXCEPT ![p] = @ + 1]
            /\ rv' = [rv EXCEPT ![p] = FALSE]
            /\ pc' = [pc EXCEPT ![p] = "returned"]
       ELSE /\ pc' = [pc EXCEPT ![p] = "parse"]
            /\ UNCHANGED <<logs, rv>>
    /\ UNCHANGED <<workers, ctx, mem, loc, msg, msgIn, heap, aborted>>

\* haystack = json_tokener_parse(data); NULL: log, goto error
Tokenize(p) ==
    /\ UNCHANGED notHandleVars
    /\ ~aborted /\ pc[p] = "parse"
    /\ IF ~Tokenized(msg[p].data)
       THEN /\ logs' = [logs EXCEPT ![p] = @ + 1]
            /\ pc' = [pc EXCEPT ![p] = "error"]
            /\ UNCHANGED <<loc, heap>>
       ELSE /\ loc' = [loc EXCEPT ![p].haystack = json_tokener_parse(msg[p].data),
                                  ![p].i = 1]
            /\ heap' = [heap EXCEPT ![p] = @ \cup {<<"haystack", 0>>}]
            /\ pc' = [pc EXCEPT ![p] = "deref"]
            /\ UNCHANGED logs
    /\ UNCHANGED <<workers, ctx, mem, msg, msgIn, rv, aborted>>

\* one iteration of the loop of _deref
DerefStep(p) ==
    /\ UNCHANGED notHandleVars
    /\ ~aborted /\ pc[p] = "deref" /\ loc[p].i <= loc[p].internal.ncount
    /\ IF Gone(p) THEN Fault(p)
       ELSE
       LET a == loc[p].internal.needles
           i == loc[p].i
           r == DerefIter(loc[p].haystack, mem[a][i])
       IN  IF r.status = "fault" THEN Fault(p)
           ELSE /\ mem' = [mem EXCEPT ![a][i] = r.cur]
                /\ heap' = [heap EXCEPT ![p] =
                                IF r.cur.result.tag = "malloc"
                                THEN @ \cup {<<"slot", i>>} ELSE @]
                /\ logs' = [logs EXCEPT ![p] = @ + r.logs]
                /\ CASE r.status = "continue" ->
                          /\ loc' = [loc EXCEPT ![p].i = i + 1]
                          /\ UNCHANGED pc
                     [] r.status = "return 1" ->
                          /\ loc' = [loc EXCEPT ![p].deref = 1]
                          /\ pc' = [pc EXCEPT ![p] = "deref_failed"]
                     [] r.status = "return -1" ->
                          /\ loc' = [loc EXCEPT ![p].deref = -1]
                          /\ pc' = [pc EXCEPT ![p] = "deref_failed"]
                /\ UNCHANGED <<workers, ctx, msg, msgIn, rv, aborted>>

\* ret = _deref(haystack, internal) != 0: the comparison binds before the
\* assignment, so ret is 0 or 1
RetOf(deref) == IF deref # 0 THEN 1 ELSE 0

\* _deref returned 0: the row buffer starts with the field count
DerefReturn(p) ==
    /\ UNCHANGED notHandleVars
    /\ ~aborted /\ pc[p] = "deref" /\ loc[p].i > loc[p].internal.ncount
    /\ loc' = [loc EXCEPT ![p].deref = 0, ![p].ret = RetOf(0), ![p].i = 1,
                          ![p].buf = loc[p].fields, ![p].buflen = 2, ![p].bufpos = 2]
    /\ pc' = [pc EXCEPT ![p] = "row"]
    /\ UNCHANGED <<workers, ctx, mem, msg, msgIn, rv, heap, logs, aborted>>

\* _deref returned non-zero: log if ret == -1, dispose of every result, goto fail
DerefFailed(p) ==
    /\ UNCHANGED notHandleVars
    /\ ~aborted /\ pc[p] = "deref_failed"
    /\ LET a == loc[p].internal.needles
           ret == RetOf(loc[p].deref)
       IN  /\ loc' = [loc EXCEPT ![p].ret = ret]
           /\ logs' = [logs EXCEPT ![p] = @ + (IF ret = -1 THEN 1 ELSE 0)]
           /\ mem' = [mem EXCEPT ![a] = Disposed(@)]
           /\ heap' = [heap EXCEPT ![p] = @ \ FreedSlots(mem[a])]
    /\ pc' = [pc EXCEPT ![p] = "error"]
    /\ UNCHANGED <<workers, ctx, msg, msgIn, rv, aborted>>

\* one iteration of the row loop up to the metadata test: the length, the
\* payload, the disposal of the result
RowStep(p) ==
    /\ UNCHANGED notHandleVars
    /\ ~aborted /\ pc[p] = "row" /\ loc[p].i <= loc[p].internal.ncount
    /\ IF Gone(p) THEN Fault(p)
       ELSE
       LET a == loc[p].internal.needles
           i == loc[p].i
           cur == mem[a][i]
           n == IF cur.result # NULL THEN NatOf(cur.length) ELSE 0
       IN  /\ IF ~RowStores(cur)
              THEN /\ loc' = [loc EXCEPT ![p].i = i + 1]
                   /\ UNCHANGED <<mem, pc, heap>>
              ELSE /\ loc' = [loc EXCEPT ![p].buf = @ \o RowRecord(cur),
                                         ![p].buflen = @ + 4 + n,
                                         ![p].bufpos = @ + 4 + n,
                                         ![p].i = IF cur.metadata THEN i ELSE i + 1]
                   /\ mem' = [mem EXCEPT ![a][i].result =
                                IF cur.result # NULL THEN CallFree(cur.free, @) ELSE @]
                   /\ heap' = [heap EXCEPT ![p] =
                                IF cur.result # NULL /\ CallFree(cur.free, cur.result) = NULL
                                THEN @ \ {<<"slot", i>>} ELSE @]
                   /\ pc' = [pc EXCEPT ![p] = IF cur.metadata THEN "meta" ELSE "row"]
           /\ UNCHANGED <<workers, ctx, msg, msgIn, rv, logs, aborted>>

\* if (needles[i]->metadata): the copy of the slot into the metadata map;
\* memcpy from a NULL result reads through a null pointer
RowMeta(p) ==
    /\ UNCHANGED notHandleVars
    /\ ~aborted /\ pc[p] = "meta"
    /\ IF Gone(p) THEN Fault(p)
       ELSE
       LET cur == Needles(p)[loc[p].i]
       IN  IF cur.result = NULL THEN Fault(p)
           ELSE /\ msg' = [msg EXCEPT ![p].md =
                            metadata_insert(@, "jpointer",
                                mdatum_init("MTYPE_STRING",
                                    memcpy(cur.result, NatOf(cur.length)) \o <<0>>))]
                /\ loc' = [loc EXCEPT ![p].i = @ + 1]
                /\ pc' = [pc EXCEPT ![p] = "row"]
                /\ UNCHANGED <<workers, ctx, mem, msgIn, rv, heap, logs, aborted>>

\* after the row loop: the message takes the row, everything is released
KeepExit(p) ==
    /\ UNCHANGED notHandleVars
    /\ ~aborted /\ pc[p] = "row" /\ loc[p].i > loc[p].internal.ncount
    /\ msg' = [msg EXCEPT ![p].data = [kind |-> "row", doc |-> NoTree,
                                       bytes |-> loc[p].buf, term |-> FALSE],
                          ![p].len = loc[p].buflen]
    /\ mem' = [mem EXCEPT ![loc[p].internal.needles] = _free_internal(@)]
    /\ heap' = [heap EXCEPT ![p] =
                    @ \ ({<<"haystack", 0>>, <<"internal", 0>>}
                         \cup FreedSlots(mem[loc[p].internal.needles]))]
    /\ rv' = [rv EXCEPT ![p] = TRUE]
    /\ pc' = [pc EXCEPT ![p] = "returned"]
    /\ UNCHANGED <<workers, ctx, loc, msgIn, logs, aborted>>

\* error: fail: _free_internal, json_object_put, return false
FailExit(p) ==
    /\ UNCHANGED notHandleVars
    /\ ~aborted /\ pc[p] = "error"
    /\ mem' = [mem EXCEPT ![loc[p].internal.needles] = _free_internal(@)]
    /\ heap' = [heap EXCEPT ![p] =
                    @ \ ({<<"haystack", 0>>, <<"internal", 0>>}
                         \cup FreedSlots(mem[loc[p].internal.needles]))]
    /\ rv' = [rv EXCEPT ![p] = FALSE]
    /\ pc' = [pc EXCEPT ![p] = "returned"]
    /\ UNCHANGED <<workers, ctx, loc, msg, msgIn, logs, aborted>>

\* the caller takes the outcome; the worker is free for the next message
Return(p) ==
    /\ UNCHANGED notHandleVars
    /\ ~aborted /\ pc[p] = "returned"
    /\ pc' = [pc EXCEPT ![p] = "idle"]
    /\ loc' = [loc EXCEPT ![p] = NoLoc]
    /\ msg' = [msg EXCEPT ![p] = NoMessage]
    /\ msgIn' = [msgIn EXCEPT ![p] = NoMessage]
    /\ rv' = [rv EXCEPT ![p] = FALSE]
    /\ heap' = [heap EXCEPT ![p] = {}]
    /\ logs' = [logs EXCEPT ![p] = 0]
    /\ mem' = [mem EXCEPT ![p] = <<>>]
    /\ UNCHANGED <<workers, ctx, aborted>>

Next ==
    \E p \in AllWorkers :
        \/ \E m \in MessagesFor(workers) : Enter(p, m)
        \/ CheckTerminator(p)
        \/ Tokenize(p)
        \/ DerefStep(p)
        \/ DerefReturn(p)
        \/ DerefFailed(p)
        \/ RowStep(p)
        \/ RowMeta(p)
        \/ KeepExit(p)
        \/ FailExit(p)
        \/ Return(p)

\* one worker
Init ==
    /\ workers = {1}
    /\ \E needlestack \in NeedleStacksOver(NeedleConfs) : Compiled(needlestack)
    /\ FmtIdle
    /\ ValidateIdle(ConfigOf(<<>>))

Spec == Init /\ [][Next]_vars

\* two workers on one shared context
ConcInit ==
    /\ workers = AllWorkers
    /\ \E needlestack \in NeedleStacksOver(ConcNeedleConfs) : Compiled(needlestack)
    /\ FmtIdle
    /\ ValidateIdle(ConfigOf(<<>>))

SpecConc == ConcInit /\ [][Next]_vars

(***************************************************************************)
(* h_jsonexport_validate, step by step.                                    *)
(***************************************************************************)
\* setting: the jpointers member the loop works on
Setting == CONF_GET_MEM(config, "jpointers")
WithSetting(setting) == [config EXCEPT !.elems = <<setting>>]

\* the call, up to the loop: jpointers must be there and be a list
ValidateEnter ==
    /\ UNCHANGED notValVars
    /\ \/ vpc = "idle"
       \/ vpc = "returned" /\ vrv /\ vruns < MaxRuns
    /\ vruns' = vruns + 1
    /\ vi' = 0
    /\ IF Setting = NoSetting \/ ~CONF_IS_LIST(Setting)
       THEN /\ vpc' = "returned"
            /\ vrv' = FALSE
            /\ vlogs' = 1
       ELSE /\ vpc' = "loop"
            /\ vrv' = FALSE
            /\ vlogs' = 0
    /\ UNCHANGED <<config, configIn, vhist>>

\* one iteration of the loop: the first element rewritten to the end
ValidateIter ==
    /\ UNCHANGED notValVars
    /\ vpc = "loop"
    /\ vi < config_setting_length(Setting)
    /\ LET child == config_setting_get_elem(Setting, 0)
           added == config_setting_add(Setting, NewArray)
           r == NormalizeEntry(child)
       IN  IF child = NoSetting
           THEN /\ vpc' = "returned"
                /\ vrv' = FALSE
                /\ vlogs' = vlogs + 1
                /\ UNCHANGED <<config, vi>>
           ELSE IF r.fault
           THEN /\ vpc' = "fault"
                /\ config' = WithSetting(added)
                /\ UNCHANGED <<vrv, vlogs, vi>>
           ELSE IF r.error
           THEN /\ vpc' = "returned"
                /\ vrv' = FALSE
                /\ vlogs' = vlogs + r.logs
                /\ config' = WithSetting(added)
                /\ UNCHANGED vi
           ELSE /\ config' = WithSetting(config_setting_remove_elem(
                                config_setting_add(Setting, SetArray(r.new))))
                /\ vi' = vi + 1
                /\ vlogs' = vlogs + r.logs
                /\ UNCHANGED <<vpc, vrv>>
    /\ UNCHANGED <<configIn, vruns, vhist>>

\* the loop condition fails: return true
ValidateExit ==
    /\ UNCHANGED notValVars
    /\ vpc = "loop"
    /\ ~(vi < config_setting_length(Setting))
    /\ vpc' = "returned"
    /\ vrv' = TRUE
    /\ vhist' = Append(vhist, config)
    /\ UNCHANGED <<config, configIn, vi, vruns, vlogs>>

ValidateNext == ValidateEnter \/ ValidateIter \/ ValidateExit

ValidateInit ==
    /\ workers = {}
    /\ Compiled(<<>>)
    /\ FmtIdle
    /\ \E c \in Configs : ValidateIdle(c)

SpecValidate == ValidateInit /\ [][ValidateNext]_vars

(***************************************************************************)
(* Validation: what the configuration gives for each entry.                *)
(***************************************************************************)
\* the value an entry gives under a key: Str of it, or NoStr when not given
Given(entry, k, name) ==
    IF entry.type = "string" THEN (IF k = 0 THEN entry.sval ELSE NoStr)
    ELSE IF entry.type = "array" THEN config_setting_get_string(config_setting_get_elem(entry, k))
    ELSE IF entry.type = "group" THEN config_setting_lookup_string(entry, name).value
    ELSE NoStr

\* bare string, array of strings, or group
ShapeKnown(entry) ==
    \/ entry.type = "string"
    \/ entry.type = "array" /\ \A k \in 1..Len(entry.elems) : entry.elems[k].type = "string"
    \/ entry.type = "group"

NamesOf(table, field) == {table[j][field] : j \in 2..Len(table)}

\* the filter in force for an entry: the given one, noop by default
FilterOf(entry) ==
    IF Given(entry, 3, "filter") = NoStr THEN "noop" ELSE Given(entry, 3, "filter")[1]

Defective(entry) ==
    \/ ~ShapeKnown(entry)
    \/ Given(entry, 0, "jpointer") = NoStr
    \/ /\ Given(entry, 1, "pqtype") # NoStr
       /\ Given(entry, 1, "pqtype")[1] \notin NamesOf(pq_types, "pq_type")
    \/ /\ Given(entry, 2, "action") # NoStr
       /\ Given(entry, 2, "action")[1] \notin NamesOf(action_types, "action_type")
    \/ /\ Given(entry, 3, "filter") # NoStr
       /\ Given(entry, 3, "filter")[1] \notin NamesOf(filter_types, "filter_type")
    \/ /\ FilterOf(entry) \in {"match", "substr"}
       /\ Given(entry, 4, "data") = NoStr

\* the jpointers list the first call was given
ListIn == CONF_GET_MEM(configIn, "jpointers")

FirstReturned == vpc = "returned" /\ vruns = 1 /\ CONF_IS_LIST(ListIn)

\* C10: on every jpointers list, validate returns error whenever an entry
\* has an unknown type, action or filter name, lacks a pointer, uses match or
\* substr without data, or is none of bare string, array of strings or
\* group; and it returns ok only when every entry is free of these defects.
C10_ValidateRejectsDefects ==
    FirstReturned =>
        (vrv <=> \A k \in 1..Len(ListIn.elems) : ~Defective(ListIn.elems[k]))

(***************************************************************************)
(* Claims about the timestamp formatter (checked under SpecFormat).        *)
(***************************************************************************)
\* the reference value of the claims, computed in 64 bits throughout
DaysBeforeMonth == <<0, 31, 59, 90, 120, 151, 181, 212, 243, 273, 304, 334>>
GregorianLeap(y) == (y % 4 = 0 /\ y % 100 # 0) \/ (y % 400 = 0)
LeapPrefix(y) == Cardinality({k \in 2000..(2000 + y - 1) : GregorianLeap(k)})
DayOfYear(c) ==
    DaysBeforeMonth[c.month] + c.day
    + (IF c.month > 2 /\ GregorianLeap(c.year) THEN 1 ELSE 0)
\* the first six fraction digits, right-padded with zeros
MicroOf(frac) ==
    strtoul([k \in 1..6 |-> IF k <= Len(frac) THEN frac[k] ELSE 48], 0)
EpochSeconds64(c) ==
    Add(Add(Add(Add(Add(U64(c.second),
                        MulL(U64(c.minute), U64(60))),
                    MulL(U64(c.hour), U64(3600))),
                MulL(U64(DayOfYear(c) - 1), U64(86400))),
            MulL(U64(LeapPrefix(c.year - 2000)), U64(86400))),
        MulL(U64(c.year - 2000), U64(31536000)))
EpochMicros64(c) == Add(MulL(EpochSeconds64(c), U64(1000000)), U64(MicroOf(c.frac)))

InRange(c) ==
    /\ c.year >= 2000 /\ c.year <= 4027
    /\ c.month >= 1 /\ c.month <= 12
    /\ c.day >= 1 /\ c.day <= 31
    /\ c.hour >= 0 /\ c.hour <= 23
    /\ c.minute >= 0 /\ c.minute <= 59
    /\ c.second >= 0 /\ c.second <= 60
    /\ (c.month = 2 => c.day <= 29)

TimestampCalled == fmtOut.by = "_json_to_pqtimestamp" /\ fmtIn # NoComponents

\* C5: every accepted timestamp whose components are in range (years 2000
\* through 4027) yields the 8-byte big-endian encoding of
\* 1000000 * epoch_s + micro, epoch_s being the 64-bit sum without wrap-around.
C5_EpochWithoutWrap ==
    (TimestampCalled /\ fmtOut.ret /\ InRange(fmtIn))
        => /\ fmtOut.cur.result = Malloced(htobe64(EpochMicros64(fmtIn)))
           /\ fmtOut.cur.length = U32(8)

\* C6: the timestamp formatter returns false whenever a parsed component lies
\* outside its range, the lower bounds included.
C6_RangeEnforced ==
    (TimestampCalled /\ ~InRange(fmtIn)) => ~fmtOut.ret

(***************************************************************************)
(* Claims about h_jsonexport (checked under Spec, C9 under SpecConc).      *)
(***************************************************************************)
Returned(p) == p \in workers /\ pc[p] = "returned"
Kept(p) == Returned(p) /\ rv[p]
\* the invocation got past the terminator check and json_tokener_parse
Parsed(p) == msgIn[p].data.term /\ msgIn[p].data.kind = "json"

\* a reader of the binary row format
RECURSIVE BEValue(_)
BEValue(b) == IF b = <<>> THEN 0 ELSE BEValue(SubSeq(b, 1, Len(b) - 1)) * 256 + b[Len(b)]

NoRecords(bytes) == [ok |-> FALSE, recs |-> <<>>, rest |-> bytes]

RECURSIVE ParseRecords(_, _)
\* k field records read from the front of bytes
ParseRecords(bytes, k) ==
    IF k = 0 THEN [ok |-> TRUE, recs |-> <<>>, rest |-> bytes]
    ELSE IF Len(bytes) < 4 THEN NoRecords(bytes)
    ELSE LET l == SubSeq(bytes, 1, 4)
             body == SubSeq(bytes, 5, Len(bytes))
         IN  IF l = <<255, 255, 255, 255>>
             THEN LET r == ParseRecords(body, k - 1)
                  IN  [ok |-> r.ok,
                       recs |-> <<[null |-> TRUE, payload |-> <<>>]>> \o r.recs,
                       rest |-> r.rest]
             ELSE IF l[1] # 0 \/ l[2] # 0 THEN NoRecords(bytes)
             ELSE IF BEValue(l) > Len(body) THEN NoRecords(bytes)
             ELSE LET n == BEValue(l)
                      r == ParseRecords(SubSeq(body, n + 1, Len(body)), k - 1)
                  IN  [ok |-> r.ok,
                       recs |-> <<[null |-> FALSE, payload |-> SubSeq(body, 1, n)]>>
                                    \o r.recs,
                       rest |-> r.rest]

\* the row read back: well formed iff the count and exactly that many records
\* make up all of the bytes
ParseRow(bytes) ==
    IF Len(bytes) < 2 THEN [ok |-> FALSE, count |-> 0, recs |-> <<>>]
    ELSE LET k == BEValue(SubSeq(bytes, 1, 2))
             r == ParseRecords(SubSeq(bytes, 3, Len(bytes)), k)
         IN  [ok |-> r.ok /\ r.rest = <<>>, count |-> k, recs |-> r.recs]

StoredActions == {"_action_store", "_action_store_true", "_action_store_meta"}

RECURSIVE StoredOf(_)
\* the needles with a storing action, in NeedleSet order
StoredOf(ns) ==
    IF ns = <<>> THEN <<>>
    ELSE (IF Head(ns).action \in StoredActions THEN <<Head(ns)>> ELSE <<>>)
         \o StoredOf(Tail(ns))

\* the value the message of worker p has under the pointer of needle n
Located(p, n) == msgIn[p].data.doc[n.jpointer]

RECURSIVE SumRecords(_)
SumRecords(recs) ==
    IF recs = <<>> THEN 0 ELSE 4 + Len(Head(recs).payload) + SumRecords(Tail(recs))

\* C1: handle either returns keep with the payload and length replaced by
\* exactly one binary row, or returns false with the message (payload, length,
\* metadata map) exactly as on entry; it always does one of the two.
C1_KeepRowOrFalseUnchanged ==
    \A p \in workers :
        /\ pc[p] # "fault"
        /\ Returned(p) =>
             IF rv[p]
             THEN /\ msg[p].data.kind = "row"
                  /\ ParseRow(msg[p].data.bytes).ok
                  /\ msg[p].len = Len(msg[p].data.bytes)
             ELSE msg[p] = msgIn[p]

\* C2: a kept message's row is the 16-bit big-endian fields_count (the number
\* of needles with action store, store_true or store_meta) followed by exactly
\* that many field records, one per stored needle in NeedleSet order; discard
\* needles contribute none, and unresolved needles do not change the count.
C2_RowHasFieldsCountRecords ==
    \A p \in workers :
        Kept(p) =>
            LET row == ParseRow(msg[p].data.bytes)
                st == StoredOf(mem[0])
            IN  /\ row.ok
                /\ SubSeq(msg[p].data.bytes, 1, 2) = <<Len(st) \div 256, Len(st) % 256>>
                /\ Len(row.recs) = Len(st)
                /\ \A j \in 1..Len(st) :
                      /\ row.recs[j].null <=> (Located(p, st[j]) = Absent)
                      /\ (~row.recs[j].null /\ st[j].format = "_json_to_pqtimestamp")
                            => Len(row.recs[j].payload) = 8

\* a kept row written while a discard needle and an unresolved stored needle
\* are in the NeedleSet
C2_Witness ==
    \E p \in workers :
        /\ Kept(p)
        /\ \E i, j \in 1..Len(mem[0]) :
              /\ mem[0][i].action \notin StoredActions
              /\ mem[0][j].action \in StoredActions
              /\ Located(p, mem[0][j]) = Absent

\* C3: in every emitted row an unresolved stored needle is the length
\* 0xFFFFFFFF with no payload, a stored needle resolved to a non-null value is
\* a big-endian length followed by that many payload bytes (the string's bytes
\* for text, 8 for timestamp), and the length set on the message is 2 plus the
\* sum over stored needles of 4 plus the payload bytes.
C3_FieldRecords ==
    \A p \in workers :
        Kept(p) =>
            LET row == ParseRow(msg[p].data.bytes)
                st == StoredOf(mem[0])
            IN  /\ row.ok /\ Len(row.recs) = Len(st)
                /\ \A j \in 1..Len(st) :
                      LET v == Located(p, st[j])
                      IN  /\ v = Absent =>
                                row.recs[j] = [null |-> TRUE, payload |-> <<>>]
                          /\ (v.type = "string" /\ st[j].format = "_json_to_pqtext")
                                => row.recs[j] = [null |-> FALSE, payload |-> v.s]
                          /\ (v.type = "string" /\ st[j].format = "_json_to_pqtimestamp")
                                => /\ ~row.recs[j].null
                                   /\ Len(row.recs[j].payload) = 8
                /\ msg[p].len = 2 + SumRecords(row.recs)
                /\ msg[p].len = Len(msg[p].data.bytes)

\* a kept row with an unresolved stored needle next to a resolved one
C3_Witness ==
    \E p \in workers :
        /\ Kept(p)
        /\ \E i, j \in 1..Len(mem[0]) :
              /\ mem[0][i].action \in StoredActions
              /\ mem[0][j].action \in StoredActions
              /\ Located(p, mem[0][i]) = Absent
              /\ Located(p, mem[0][j]).type = "string"

\* what each action answers for a filter result, as the claim C4 tabulates it
ActionKeeps(action, filter_ret) ==
    CASE action = "_action_store" -> TRUE
      [] action = "_action_store_meta" -> TRUE
      [] action = "_action_store_true" -> filter_ret
      [] action = "_action_discard_false" -> filter_ret
      [] action = "_action_discard_true" -> ~filter_ret

\* the answer of needle n's action on the message of worker p
NeedleKeeps(p, n) ==
    LET v == Located(p, n)
    IN  ActionKeeps(n.action,
                    CallFilter(n.filter, v # Absent,
                               IF v = Absent THEN JNull ELSE v, n))

\* the type formatter of needle n returns false on the message of worker p
FormatFails(p, n) ==
    LET v == Located(p, n)
    IN  v.type = "string" /\ ~CallFormat(n.format, v, n).ret

C7_AllReleasedOnReturn ==
    \A p \in workers : Returned(p) => heap[p] = {}

\* C8: the metadata copy of a marked needle is read from the slot while the
\* slot still holds its payload, for text and timestamp alike, and on keep the
\* map holds under "jpointer" the null-terminated payload of the last
\* store_meta needle that located a non-null value.
C8_MetadataCopiedFromLiveSlot ==
    \A p \in workers :
        /\ (pc[p] = "meta" /\ ~Gone(p)) => Needles(p)[loc[p].i].result # NULL
        /\ Kept(p) =>
              \A k \in 1..Len(mem[0]) :
                  ( /\ mem[0][k].action = "_action_store_meta"
                    /\ Located(p, mem[0][k]).type = "string"
                    /\ \A j \in (k + 1)..Len(mem[0]) :
                          ~( /\ mem[0][j].action = "_action_store_meta"
                             /\ Located(p, mem[0][j]).type = "string") )
                  => /\ msg[p].md["jpointer"].type = "MTYPE_STRING"
                     /\ mem[0][k].format = "_json_to_pqtext"
                            => msg[p].md["jpointer"].value = Located(p, mem[0][k]).s \o <<0>>

(***************************************************************************)
(* h_jsonexport run alone on one message: the steps above composed in      *)
(* program order, on needles that nobody else touches.                     *)
(***************************************************************************)
RECURSIVE DerefAlone(_, _, _)
DerefAlone(haystack, needles, i) ==
    IF i > Len(needles) THEN [status |-> "return 0", needles |-> needles]
    ELSE LET r == DerefIter(haystack, needles[i])
         IN  IF r.status = "continue"
             THEN DerefAlone(haystack, [needles EXCEPT ![i] = r.cur], i + 1)
             ELSE [status |-> r.status, needles |-> [needles EXCEPT ![i] = r.cur]]

RECURSIVE RowAlone(_, _, _, _)
RowAlone(needles, i, buf, md) ==
    IF i > Len(needles) THEN [fault |-> FALSE, buf |-> buf, md |-> md]
    ELSE LET cur == needles[i]
             after == IF cur.result # NULL THEN CallFree(cur.free, cur.result)
                      ELSE cur.result
         IN  IF ~RowStores(cur) THEN RowAlone(needles, i + 1, buf, md)
             ELSE IF ~cur.metadata
             THEN RowAlone(needles, i + 1, buf \o RowRecord(cur), md)
             ELSE IF after = NULL THEN [fault |-> TRUE, buf |-> buf, md |-> md]
             ELSE RowAlone(needles, i + 1, buf \o RowRecord(cur),
                           metadata_insert(md, "jpointer",
                               mdatum_init("MTYPE_STRING",
                                   memcpy(after, NatOf(cur.length)) \o <<0>>)))

\* the outcome of h_jsonexport on message m alone: whether it faults, the
\* value returned and the message afterwards
HandleAlone(internal, needles, m) ==
    IF ~m.data.term \/ ~Tokenized(m.data)
    THEN [fault |-> FALSE, rv |-> FALSE, msg |-> m]
    ELSE LET d == DerefAlone(json_tokener_parse(m.data), needles, 1)
         IN  IF d.status = "fault" THEN [fault |-> TRUE, rv |-> FALSE, msg |-> m]
             ELSE IF d.status # "return 0" THEN [fault |-> FALSE, rv |-> FALSE, msg |-> m]
             ELSE LET r == RowAlone(d.needles, 1, htons(internal.fields), m.md)
                  IN  IF r.fault THEN [fault |-> TRUE, rv |-> FALSE, msg |-> m]
                      ELSE [fault |-> FALSE, rv |-> TRUE,
                            msg |-> [data |-> [kind |-> "row", doc |-> NoTree,
                                               bytes |-> r.buf, term |-> FALSE],
                                     len |-> Len(r.buf),
                                     md |-> r.md]]

\* every slot of the compiled NeedleSet is as _needles left it
Pristine ==
    /\ Len(mem[0]) = ctx.ncount
    /\ \A k \in 1..Len(mem[0]) :
          /\ mem[0][k].result = NULL
          /\ mem[0][k].length = U32(0)
          /\ mem[0][k].metadata = FALSE

\* every finished invocation ended as it ends when run alone
OutcomeAsAlone ==
    \A p \in workers :
        /\ Returned(p) =>
              LET o == HandleAlone(ctx, mem[0], msgIn[p])
              IN  ~o.fault /\ rv[p] = o.rv /\ msg[p] = o.msg
        /\ pc[p] = "fault" => HandleAlone(ctx, mem[0], msgIn[p]).fault

\* C9: with invocations interleaved in any way on one shared context, no step
\* writes the compiled NeedleSet (it stays as it was right after init, slots
\* included), and every invocation's outcome and row are those it produces
\* when run alone.
C9_InvocationsIsolated ==
    /\ [](Pristine /\ OutcomeAsAlone)
    /\ [][ctx' = ctx /\ mem'[0] = mem[0]]_vars

\* two invocations in flight at once, each with slots written in its own copy
C9_Witness ==
    /\ workers = AllWorkers
    /\ pc[1] \in {"deref", "row", "meta"} /\ pc[2] \in {"deref", "row", "meta"}
    /\ mem[1] # mem[0] /\ mem[2] # mem[0] /\ mem[1] # mem[2]

(***************************************************************************)
(* Normalization: the 5-tuple the configuration asks for per entry.        *)
(***************************************************************************)
OrDefault(value, default) == IF value = NoStr THEN Str(default) ELSE value

\* the entry's given values, the stated default for every value not given
Expected(entry) ==
    << Given(entry, 0, "jpointer"),
       OrDefault(Given(entry, 1, "pqtype"), "text"),
       OrDefault(Given(entry, 2, "action"), "store"),
       OrDefault(Given(entry, 3, "filter"), "noop"),
       OrDefault(Given(entry, 4, "data"), "") >>

\* an array of exactly five strings, every one of them set
FiveStrings(setting) ==
    /\ setting.type = "array"
    /\ Len(setting.elems) = 5
    /\ \A j \in 1..5 : setting.elems[j].type = "string" /\ setting.elems[j].sval # NoStr

FirstOk == vpc = "returned" /\ vruns = 1 /\ vrv

\* C11: when validate returns ok on a list of n entries the list has exactly
\* n entries in the original order, each an array of exactly five strings
\* holding the entry's given values and the defaults text, store, noop and ""
\* for every value not given; the list has n entries at the end of every
\* iteration of the loop.
C11_NormalizedInOrder ==
    /\ (vpc = "loop" /\ vruns = 1) => Len(Setting.elems) = Len(ListIn.elems)
    /\ FirstOk =>
          /\ Len(Setting.elems) = Len(ListIn.elems)
          /\ \A k \in 1..Len(ListIn.elems) :
                /\ FiveStrings(Setting.elems[k])
                /\ Setting.elems[k] = SetArray(Expected(ListIn.elems[k]))

\* C12: normalization is idempotent: after validate returned ok a second
\* call on the normalized configuration returns ok too and leaves the list
\* of 5-tuples as the first call left it, entry for entry.
C12_NormalizationIdempotent ==
    (vpc = "returned" /\ vruns = 2) => (vrv /\ Setting = CONF_GET_MEM(vhist[1], "jpointers"))

(***************************************************************************)
(* Diagnostics: why an invocation that returned false failed.              *)
(***************************************************************************)
Unterminated(p) == ~msgIn[p].data.term
Unparsed(p) == msgIn[p].data.term /\ ~Tokenized(msgIn[p].data)
FormatError(p) == Parsed(p) /\ loc[p].deref = -1
ActionDrop(p) == Parsed(p) /\ loc[p].deref = 1

\* C13: a missing terminator, a JSON parse failure and a format error each
\* make handle return false with exactly one diagnostic logged; a drop
\* decided by a filter and action returns false with no diagnostic.
C13_OneDiagnosticPerFailure ==
    \A p \in workers :
        Returned(p) =>
            /\ (Unterminated(p) \/ Unparsed(p) \/ FormatError(p)) =>
                  (~rv[p] /\ logs[p] = 1)
            /\ ActionDrop(p) => (~rv[p] /\ logs[p] = 0)

(***************************************************************************)
(* The located value the formatter is given.                               *)
(***************************************************************************)
\* the invocation on worker p is about to run an iteration of _deref
AtNeedle(p) ==
    /\ pc[p] = "deref"
    /\ loc[p].i <= loc[p].internal.ncount
    /\ ~Gone(p)

\* that iteration calls the type formatter: the pointer resolves and the
\* action returns true
FormatterDue(p) ==
    LET cur == Needles(p)[loc[p].i]
        g == json_pointer_get(loc[p].haystack, cur.jpointer)
    IN  /\ g.ret = 0
        /\ CallAction(cur.action, CallFilter(cur.filter, g.ret = 0, g.found, cur),
                      g.found, cur).ret

\* C14: the type formatter is only ever invoked with a non-null located
\* value: when a needle's pointer resolves to JSON null neither formatter is
\* handed the null, so none takes the length of a null string rendering.
C14_FormatterNeverGivenNull ==
    \A p \in workers :
        (AtNeedle(p) /\ FormatterDue(p)) =>
            json_pointer_get(loc[p].haystack, Needles(p)[loc[p].i].jpointer).found # JNull


====
